---- MODULE Spec2Model ----
(***************************************************************************)
(* Model of src/main.rs: the sequential block fetcher.  main() asks the    *)
(* endpoint for the current slot (getSlot), then loops requesting the      *)
(* block at slot_to_fetch (getBlock), classifying each answer into         *)
(* retry-after-delay, skip, log-and-retry, success or stop.                *)
(*                                                                         *)
(* The remote endpoint, the HTTP transport and the wall clock are the      *)
(* environment: every answer is drawn from a small set of wire bodies,     *)
(* which the model decodes the way the serde derive of JsonRpcResponse     *)
(* does.  Everything the program does that is visible from outside (the    *)
(* requests it sends, the lines it prints, the sleeps it takes) is         *)
(* appended to the history variable events, in program order.              *)
(***************************************************************************)
EXTENDS Integers, Sequences, FiniteSets, TLC

(***************************************************************************)
(* Bounds of the model.                                                    *)
(***************************************************************************)
\* getBlock requests issued in one run
MaxFetches == 3
\* entries of the largest "transactions" array the remote answers with
MaxTxs == 2
\* answers in a row that make the loop ask for the same slot again, in the
\* runs in which the endpoint gives such answers only finitely often
MaxRetries == 1

(***************************************************************************)
(* u64.  TLC's integers are 32 bits wide, so a u64 is kept as four 16-bit  *)
(* limbs, most significant first; its arithmetic is done limb by limb.     *)
(***************************************************************************)
LimbBits == 16
NumLimbs == 4
LimbBase == 2 ^ LimbBits
LimbMax == LimbBase - 1
Limbs == 1..NumLimbs

U64_ZERO == [i \in Limbs |-> 0]
U64_MAX == [i \in Limbs |-> LimbMax]

\* the u64 of a natural number below 2^31
U64(n) == [i \in Limbs |-> IF i = NumLimbs THEN n % LimbBase
                           ELSE IF i = NumLimbs - 1 THEN n \div LimbBase
                           ELSE 0]

\* a < b as unsigned integers
U64Lt(a, b) ==
    \E k \in Limbs : a[k] < b[k] /\ \A j \in 1..(k - 1) : a[j] = b[j]

\* x + 1 modulo 2^64: the carry runs through the trailing limbs that are full
WrappingAddOne(x) ==
    IF x = U64_MAX THEN U64_ZERO
    ELSE LET k == CHOOSE k \in Limbs :
                      /\ x[k] # LimbMax
                      /\ \A j \in (k + 1)..NumLimbs : x[j] = LimbMax
         IN  [i \in Limbs |-> IF i < k THEN x[i]
                              ELSE IF i = k THEN x[i] + 1
                              ELSE 0]

\* U64_MAX - 1
U64_MAX_PRED == [i \in Limbs |-> IF i = NumLimbs THEN LimbMax - 1 ELSE LimbMax]

(***************************************************************************)
(* Program constants.                                                      *)
(***************************************************************************)
\* a mistyped "not available" code
SOLANA_BLOCK_NOT_AVAILABLE_ERROR_typo == -32004 - 1

SOLANA_BLOCK_NOT_AVAILABLE_ERROR == -32004

\* a mistyped "skipped" code
SOLANA_BLOCK_SKIPPED_ERROR_typo == -32007 - 1

SOLANA_BLOCK_SKIPPED_ERROR == -32007
\* milliseconds
FETCH_RETRY_DELAY == 500

GET_SLOT_ID == 1
GET_BLOCK_ID == 2

(***************************************************************************)
(* Option<T>                                                               *)
(***************************************************************************)
None == [some |-> FALSE]
Some(v) == [some |-> TRUE, value |-> v]

(***************************************************************************)
(* JSON values on the wire, as far as the program looks into them.         *)
(* Absent stands for a key that is not in the object.                      *)
(***************************************************************************)
Absent == [t |-> "absent"]
JNull == [t |-> "null"]
JString == [t |-> "string"]
JNumber(u) == [t |-> "number", u64 |-> u]
JArray(n) == [t |-> "array", len |-> n]
\* an object, of which only the key "transactions" is looked at
JObject(transactions) == [t |-> "object", transactions |-> transactions]
JErrorObject(code, message) == [t |-> "error_object", code |-> code, message |-> message]

\* the body of a response: its four known keys, and whether it has another one
Body(jsonrpc, id, result, error, unknown) ==
    [jsonrpc |-> jsonrpc, id |-> id, result |-> result, error |-> error,
     unknown |-> unknown]

(***************************************************************************)
(* Decoding (the serde derive of JsonRpcResponse<T> and JsonRpcError).     *)
(* A decoder answers Failed or Decoded(value).                             *)
(***************************************************************************)
Failed == [ok |-> FALSE]
Decoded(v) == [ok |-> TRUE, value |-> v]

\* T = u64: a JSON number in the range of u64, nothing else
Decode_u64(j) == IF j.t = "number" THEN Decoded(j.u64) ELSE Failed

\* T = serde_json::Value: any JSON value
Decode_Value(j) == Decoded(j)

\* String
Decode_String(j) == IF j.t = "string" THEN Decoded("2.0") ELSE Failed

\* JsonRpcError: an object with an integer code and a string message
Decode_JsonRpcError(j) ==
    IF j.t = "error_object"
    THEN Decoded([code |-> j.code, message |-> j.message])
    ELSE Failed

\* Option<T>: a missing key and null are None, anything else must decode as
\* T; `d` is what decoding j as T gives
Decode_Option(j, d) ==
    IF j.t \in {"absent", "null"} THEN Decoded(None)
    ELSE IF d.ok THEN Decoded(Some(d.value)) ELSE Failed

\* JsonRpcResponse<T>, deny_unknown_fields: jsonrpc and id are required,
\* result and error are optional, any other key fails the decode; `result` is
\* what decoding the key "result" as Option<T> gives
Decode_JsonRpcResponse(body, result) ==
    LET jsonrpc == Decode_String(body.jsonrpc)
        id      == Decode_u64(body.id)
        error   == Decode_Option(body.error, Decode_JsonRpcError(body.error))
    IN  IF body.unknown \/ ~jsonrpc.ok \/ ~id.ok \/ ~result.ok \/ ~error.ok
        THEN Failed
        ELSE Decoded([jsonrpc |-> jsonrpc.value, id |-> id.value,
                      result |-> result.value, error |-> error.value])

\* line 18: JsonRpcResponse<u64>
Decode_SlotResponse(body) ==
    Decode_JsonRpcResponse(body, Decode_Option(body.result, Decode_u64(body.result)))

\* line 45: JsonRpcResponse<serde_json::Value>
Decode_BlockResponse(body) ==
    Decode_JsonRpcResponse(body, Decode_Option(body.result, Decode_Value(body.result)))

\* a lookup that takes a missing or malformed "transactions" for an empty array
Transactions_lenient(block) ==
    IF block.t = "object" /\ block.transactions.t = "array"
    THEN Some(block.transactions)
    ELSE Some(JArray(0))

\* block.get("transactions").and_then(|t| t.as_array()): the array under the
\* key "transactions" of an object, None for anything else
Transactions(block) ==
    IF block.t = "object" /\ block.transactions.t = "array"
    THEN Some(block.transactions)
    ELSE None

(***************************************************************************)
(* The environment: what the endpoint may answer.                          *)
(***************************************************************************)
\* slots the endpoint reports as its current one
Frontiers == {U64_ZERO, U64(1000), U64_MAX_PRED, U64_MAX}

\* the error codes the endpoint answers with: "not available", "skipped", and
\* one that is neither
ErrorCodes == {-32004, -32007, -32005}
ErrorObjects == {JErrorObject(c, "message") : c \in ErrorCodes}

\* measured latencies, in milliseconds
Latencies == {1, 2}

WellFormed(id, result, error) == Body(JString, JNumber(U64(id)), result, error, FALSE)

\* bodies that fail to decode as a JsonRpcResponse<T>, whatever T
BrokenBodies(id) ==
    { Body(JString, JNumber(U64(id)), JNull, Absent, TRUE),
      Body(JString, Absent, JNull, Absent, FALSE),
      Body(Absent, JNumber(U64(id)), JNull, Absent, FALSE),
      Body(JString, JNumber(U64(id)), Absent, JString, FALSE) }

GetSlotBodies ==
    { WellFormed(GET_SLOT_ID, r, e) :
        r \in {Absent, JNull, JString} \cup {JNumber(f) : f \in Frontiers},
        e \in {Absent, JNull} \cup ErrorObjects }
    \cup BrokenBodies(GET_SLOT_ID)

\* results of getBlock: none, a block with 0..MaxTxs transactions, an object
\* without the key, an object with something else under the key, a non-object
BlockResults ==
    {Absent, JNull, JObject(Absent), JObject(JString), JObject(JNull), JString, JArray(1)}
    \cup {JObject(JArray(n)) : n \in 0..MaxTxs}

GetBlockBodies ==
    { WellFormed(GET_BLOCK_ID, r, Absent) : r \in BlockResults }
    \cup { WellFormed(GET_BLOCK_ID, r, e) :
             r \in {Absent, JObject(JArray(1))}, e \in ErrorObjects }
    \cup BrokenBodies(GET_BLOCK_ID)

\* what client.post(..).send() and .json() hand back: the transport fails, or
\* a body arrives
TransportFailure == [kind |-> "transport_failure"]
Arrived(body) == [kind |-> "body", body |-> body]

GetSlotOutcomes == {TransportFailure} \cup {Arrived(b) : b \in GetSlotBodies}
GetBlockOutcomes == {TransportFailure} \cup {Arrived(b) : b \in GetBlockBodies}

(***************************************************************************)
(* What the program does that is visible from outside.                     *)
(***************************************************************************)
\* JsonRpcRequest::new
JsonRpcRequest_new(id, method, params) ==
    [jsonrpc |-> "2.0", id |-> id, method |-> method, params |-> params]

\* serde_json::json!([])
NoParams == << >>
\* the configuration object sent with every getBlock
get_block_cfg ==
    [encoding |-> "json", maxSupportedTransactionVersion |-> 0,
     transactionDetails |-> "full", rewards |-> FALSE]
\* serde_json::json!([slot_to_fetch, get_block_cfg])
GetBlockParams(slot) == << [slot |-> slot], [cfg |-> get_block_cfg] >>

\* a printed line: the format string and the values put into its holes
Line(fmt, args) == [fmt |-> fmt, args |-> args]
ArgU64(u) == [u64 |-> u]
ArgUsize(n) == [usize |-> n]
ArgI64(n) == [i64 |-> n]
ArgStr(s) == [str |-> s]
ArgDuration(ms) == [millis |-> ms]
ArgText(line) == [text |-> line]

\* impl Display for JsonRpcError
JsonRpcError_fmt(error) ==
    Line("JSON-RPC error {}: {}", << ArgI64(error.code), ArgStr(error.message) >>)

StartLine(slot) == Line("fetching blocks starting from slot: {}", << ArgU64(slot) >>)
\* a "skipped" line that does not say which slot
SkippedLine_bare(slot) == Line("slot skipped", << >>)

SkippedLine(slot) == Line("slot: {} | skipped", << ArgU64(slot) >>)
ErrorLine(error) == Line("error: {}", << ArgText(JsonRpcError_fmt(error)) >>)
NoBlockLine(slot) == Line("no block data found for slot: {}", << ArgU64(slot) >>)
NoTransactionsLine(slot) == Line("no transactions found for slot: {}", << ArgU64(slot) >>)
BlockLine(slot, tx_count, latency) ==
    Line("slot: {} | tx_count: {} | latency: {:?}",
         << ArgU64(slot), ArgUsize(tx_count), ArgDuration(latency) >>)

\* the entries of the history
Sent(request) == [ev |-> "request", request |-> request]
Received(outcome) == [ev |-> "response", outcome |-> outcome]
Printed(line) == [ev |-> "println", line |-> line]
Slept(ms) == [ev |-> "sleep", millis |-> ms]

\* how main() ended
Running == [status |-> "running"]
ExitOk == [status |-> "ok"]
ExitErr(error) == [status |-> "err", error |-> error]
ExitPanic(msg) == [status |-> "panic", msg |-> msg]

\* the errors main() returns
TransportError == [kind |-> "transport"]
DecodeError == [kind |-> "decode"]
RpcError(error) == [kind |-> "rpc", code |-> error.code, message |-> error.message]

(***************************************************************************)
(* State.                                                                  *)
(***************************************************************************)
VARIABLES
    pc,               \* where main() is: "start", "await_slot", "loop",
                      \* "await_block", "sleeping", "exited"
    slot_to_fetch,    \* the local of that name; NoSlot until line 32 creates it
    exit,             \* how main() ended, Running until it has
    overflow_checks,  \* whether the build checks integer overflow
    events            \* the history of requests, responses, lines and sleeps

vars == << pc, slot_to_fetch, exit, overflow_checks, events >>

NoSlot == << >>

Init ==
    /\ pc = "start"
    /\ slot_to_fetch = NoSlot
    /\ exit = Running
    /\ overflow_checks \in BOOLEAN
    /\ events = << >>

\* the getBlock requests sent so far
BlockRequests == SelectSeq(events, LAMBDA e : e.ev = "request" /\ e.request.method = "getBlock")

\* an ending that swallows the error: main() returns Ok whatever happened
Terminate_swallowed(how, done) ==
    /\ pc' = "exited"
    /\ exit' = ExitOk
    /\ events' = events \o done
    /\ UNCHANGED << slot_to_fetch, overflow_checks >>

\* main() ends with `how`, having done `done` since the last state
Terminate(how, done) ==
    /\ pc' = "exited"
    /\ exit' = how
    /\ events' = events \o done
    /\ UNCHANGED << slot_to_fetch, overflow_checks >>

\* slot_to_fetch += 1 on u64: past u64::MAX the build either panics (overflow
\* checks on, the debug profile) or wraps around (off, the release profile)
Overflows(slot) == slot = U64_MAX

\* the loop goes on with the next slot, having done `done`; an overflowing
\* increment panics after `done` when the build checks overflow
Advance(done) ==
    IF Overflows(slot_to_fetch) /\ overflow_checks
    THEN Terminate(ExitPanic("attempt to add with overflow"), done)
    ELSE /\ slot_to_fetch' = WrappingAddOne(slot_to_fetch)
         /\ pc' = "loop"
         /\ events' = events \o done
         /\ UNCHANGED << exit, overflow_checks >>

\* a `continue` that moves on to the next slot
Continue_advancing(done) ==
    /\ pc' = "loop"
    /\ slot_to_fetch' = WrappingAddOne(slot_to_fetch)
    /\ events' = events \o done
    /\ UNCHANGED << exit, overflow_checks >>

\* a `continue` that waits before the next request
Continue_delayed(done) ==
    /\ pc' = "loop"
    /\ events' = events \o done \o << Slept(FETCH_RETRY_DELAY) >>
    /\ UNCHANGED << slot_to_fetch, exit, overflow_checks >>

\* `continue` with the same slot, having done `done`
Continue(done) ==
    /\ pc' = "loop"
    /\ events' = events \o done
    /\ UNCHANGED << slot_to_fetch, exit, overflow_checks >>

(***************************************************************************)
(* main(), one action per stretch of code between two awaits.              *)
(***************************************************************************)
\* lines 16-17: the getSlot request is built and sent
SendGetSlot ==
    /\ pc = "start"
    /\ pc' = "await_slot"
    /\ events' = Append(events, Sent(JsonRpcRequest_new(GET_SLOT_ID, "getSlot", NoParams)))
    /\ UNCHANGED << slot_to_fetch, exit, overflow_checks >>

\* a loop that starts one past the reported slot
InitialSlot_next(latest_slot) == WrappingAddOne(latest_slot)

\* line 32: let mut slot_to_fetch = latest_slot
InitialSlot(latest_slot) == latest_slot

\* a check that never sees the error
IsErr_never(resp) == FALSE

\* a check that looks at the error only when there is no result
IsErr_unless_result(resp) == resp.error.some /\ ~resp.result.some

\* lines 20 and 48: if let Some(error) = resp.error
IsErr(resp) == resp.error.some

\* lines 17-34: the answer to getSlot arrives
GetSlot(outcome) ==
    /\ pc = "await_slot"
    /\ IF outcome.kind = "transport_failure"
       THEN \* send().await?
            Terminate(ExitErr(TransportError), << Received(outcome) >>)
       ELSE LET d == Decode_SlotResponse(outcome.body)
            IN  IF ~d.ok
                THEN \* json().await?
                     Terminate(ExitErr(DecodeError), << Received(outcome) >>)
                ELSE LET get_slot_resp == d.value
                     IN  IF IsErr(get_slot_resp)
                         THEN Terminate(ExitErr(RpcError(get_slot_resp.error.value)),
                                        << Received(outcome) >>)
                         ELSE IF ~get_slot_resp.result.some
                         THEN Terminate(ExitPanic("expected slot result"),
                                        << Received(outcome) >>)
                         ELSE /\ slot_to_fetch' = InitialSlot(get_slot_resp.result.value)
                              /\ pc' = "loop"
                              /\ events' = events \o
                                     << Received(outcome), Printed(StartLine(slot_to_fetch')) >>
                              /\ UNCHANGED << exit, overflow_checks >>

\* lines 36-44: the top of the loop, the getBlock request for slot_to_fetch
\* is built and sent
IssueGetBlock ==
    /\ pc = "loop"
    /\ pc' = "await_block"
    /\ events' = Append(events,
           Sent(JsonRpcRequest_new(GET_BLOCK_ID, "getBlock", GetBlockParams(slot_to_fetch))))
    /\ UNCHANGED << slot_to_fetch, exit, overflow_checks >>

\* the same, in a run of at most MaxFetches requests
SendGetBlock ==
    /\ Len(BlockRequests) < MaxFetches
    /\ IssueGetBlock

\* lines 44-77: the answer to getBlock arrives, `latency` after the request
GetBlock(outcome, latency) ==
    /\ pc = "await_block"
    /\ IF outcome.kind = "transport_failure"
       THEN Terminate(ExitErr(TransportError), << Received(outcome) >>)
       ELSE LET d == Decode_BlockResponse(outcome.body)
            IN  IF ~d.ok
                THEN Terminate(ExitErr(DecodeError), << Received(outcome) >>)
                ELSE LET get_block_resp == d.value
                         error == get_block_resp.error.value
                         block == get_block_resp.result.value
                         txs   == Transactions(block)
                     IN  IF IsErr(get_block_resp)
                         THEN IF error.code = SOLANA_BLOCK_NOT_AVAILABLE_ERROR
                              THEN /\ pc' = "sleeping"
                                   /\ events' = events \o
                                          << Received(outcome), Slept(FETCH_RETRY_DELAY) >>
                                   /\ UNCHANGED << slot_to_fetch, exit, overflow_checks >>
                              ELSE IF error.code = SOLANA_BLOCK_SKIPPED_ERROR
                              THEN Advance(<< Received(outcome),
                                              Printed(SkippedLine(slot_to_fetch)) >>)
                              ELSE Continue(<< Received(outcome), Printed(ErrorLine(error)) >>)
                         ELSE IF ~get_block_resp.result.some
                         THEN Terminate(ExitOk, << Received(outcome),
                                                   Printed(NoBlockLine(slot_to_fetch)) >>)
                         ELSE IF ~txs.some
                         THEN Terminate(ExitOk, << Received(outcome),
                                                   Printed(NoTransactionsLine(slot_to_fetch)) >>)
                         ELSE Advance(<< Received(outcome),
                                         Printed(BlockLine(slot_to_fetch, txs.value.len, latency)) >>)

\* lines 50 and 57: the sleep is over, `continue`
SleepDone ==
    /\ pc = "sleeping"
    /\ Continue(<< >>)

Next ==
    \/ SendGetSlot
    \/ \E outcome \in GetSlotOutcomes : GetSlot(outcome)
    \/ SendGetBlock
    \/ \E outcome \in GetBlockOutcomes, latency \in Latencies : GetBlock(outcome, latency)
    \/ SleepDone

Spec == Init /\ [][Next]_vars

(***************************************************************************)
(* Reading the history.  The properties below name answers by what was on  *)
(* the wire, not by how the program decoded them.                          *)
(***************************************************************************)
\* events[i] is a request of `method`
IsRequest(i, method) ==
    /\ i \in DOMAIN events
    /\ events[i].ev = "request"
    /\ events[i].request.method = method

\* events[i] is the answer to a request of `method`
IsAnswer(i, method) ==
    /\ i \in DOMAIN events
    /\ events[i].ev = "response"
    /\ IsRequest(i - 1, method)

\* the slot a getBlock request asks for
RequestedSlot(i) == events[i].request.params[1].slot

\* the getBlock request for `slot`, as it must look on the wire
BlockRequestFor(slot) ==
    Sent([jsonrpc |-> "2.0", id |-> 2, method |-> "getBlock",
          params |-> << [slot |-> slot],
                        [cfg |-> [encoding |-> "json", maxSupportedTransactionVersion |-> 0,
                                  transactionDetails |-> "full", rewards |-> FALSE]] >>])

\* a body arrived and has the envelope of a response
HasEnvelope(o) ==
    /\ o.kind = "body"
    /\ ~o.body.unknown
    /\ o.body.jsonrpc.t = "string"
    /\ o.body.id.t = "number"

\* a response carrying the remote error `code`
IsRemoteError(o, code) ==
    /\ HasEnvelope(o)
    /\ o.body.error.t = "error_object"
    /\ o.body.error.code = code

\* a response carrying no error
IsWithoutError(o) ==
    /\ HasEnvelope(o)
    /\ o.body.error.t \in {"absent", "null"}

\* n is c + 1, as integers
IsSuccessor(c, n) == c # U64_MAX /\ n = WrappingAddOne(c)

\* nothing has happened after events[i]
IsLast(i) == Len(events) = i

(***************************************************************************)
(* C1.  Whenever getSlot succeeds with value F, the first getBlock request *)
(* that is issued carries the slot F.                                      *)
(***************************************************************************)
C1_FirstFetchUsesFrontier ==
    \A i \in DOMAIN events, F \in Frontiers :
        ( /\ IsAnswer(i, "getSlot")
          /\ IsWithoutError(events[i].outcome)
          /\ events[i].outcome.body.result = JNumber(F) )
        => /\ \A j \in DOMAIN events :
                 ( IsRequest(j, "getBlock")
                   /\ \A k \in 1..(j - 1) : ~IsRequest(k, "getBlock") )
                 => events[j] = BlockRequestFor(F)
           /\ IsLast(i + 1) => (pc = "loop" /\ slot_to_fetch = F /\ exit = Running)

\* getSlot answered 1000 and the first getBlock request, for 1000, is out
C1_Witness ==
    /\ Len(events) >= 4
    /\ IsAnswer(2, "getSlot")
    /\ events[2].outcome.body.result = JNumber(U64(1000))
    /\ events[4] = BlockRequestFor(U64(1000))

(***************************************************************************)
(* C2.  When getBlock for C answers the remote error -32004, the loop      *)
(* sleeps the fixed delay (500 ms), leaves the cursor at C, does not end,  *)
(* and the next request is again getBlock for C; and so on for as long as  *)
(* the remote keeps answering -32004.                                      *)
(***************************************************************************)
C2_NotAvailableRetriesSameSlot ==
    \A i \in DOMAIN events :
        ( IsAnswer(i, "getBlock") /\ IsRemoteError(events[i].outcome, -32004) )
        => LET C == RequestedSlot(i - 1)
           IN  /\ Len(events) >= i + 1
               /\ events[i + 1] = Slept(500)
               /\ Len(events) >= i + 2 => events[i + 2] = BlockRequestFor(C)
               /\ Len(events) <= i + 2
                    => /\ slot_to_fetch = C
                       /\ exit = Running
                       /\ IsLast(i + 1) => pc \in {"sleeping", "loop"}
                       /\ IsLast(i + 2) => pc = "await_block"

\* -32004 twice in a row for 1000, and the third request for 1000 is out
C2_Witness ==
    /\ Len(events) = 10
    /\ events[4] = BlockRequestFor(U64(1000))
    /\ IsRemoteError(events[5].outcome, -32004)
    /\ events[7] = BlockRequestFor(U64(1000))
    /\ IsRemoteError(events[8].outcome, -32004)
    /\ events[10] = BlockRequestFor(U64(1000))
    /\ pc = "await_block"

(***************************************************************************)
(* C3.  When getBlock for C answers the remote error -32007, the loop      *)
(* prints the "skipped" line for C, advances the cursor by exactly 1, does *)
(* not end, and the next request is getBlock for C + 1.                    *)
(***************************************************************************)
\* events[i] answers -32007 to the getBlock request for `C`
IsSkipped(i) == IsAnswer(i, "getBlock") /\ IsRemoteError(events[i].outcome, -32007)

\* after events[i], the answer to getBlock for C, the loop has gone on to C + 1
GoesOnToNext(i) ==
    LET C == RequestedSlot(i - 1)
    IN  /\ Len(events) >= i + 2
          => \E n \in {WrappingAddOne(C)} :
                IsSuccessor(C, n) /\ events[i + 2] = BlockRequestFor(n)
        /\ IsLast(i + 1)
          => /\ pc = "loop"
             /\ exit = Running
             /\ IsSuccessor(C, slot_to_fetch)

SkippedLineIsPrinted(i) ==
    /\ Len(events) >= i + 1
    /\ events[i + 1] =
         Printed([fmt |-> "slot: {} | skipped", args |-> << [u64 |-> RequestedSlot(i - 1)] >>])

C3_SkippedAdvancesByOne ==
    \A i \in DOMAIN events :
        IsSkipped(i) => (SkippedLineIsPrinted(i) /\ GoesOnToNext(i))

\* the same for every C below u64::MAX, where C + 1 is a u64
C3_BelowMax ==
    \A i \in DOMAIN events :
        (IsSkipped(i) /\ RequestedSlot(i - 1) # U64_MAX)
        => (SkippedLineIsPrinted(i) /\ GoesOnToNext(i))

\* at u64::MAX the "skipped" line is still printed
C3_LineAtMax ==
    \A i \in DOMAIN events : IsSkipped(i) => SkippedLineIsPrinted(i)

(***************************************************************************)
(* C4.  When getBlock for C succeeds with a well-formed block of N         *)
(* transactions, the loop prints the line with slot C and count N,         *)
(* advances the cursor by exactly 1, does not end, and the next request is *)
(* getBlock for C + 1.                                                     *)
(***************************************************************************)
\* the number of transactions of a well-formed block, -1 for anything else
TxCountOnWire(result) ==
    IF result.t = "object"
    THEN IF result.transactions.t = "array" THEN result.transactions.len ELSE -1
    ELSE -1

\* events[i] answers the getBlock request with a well-formed block
IsBlock(i) ==
    /\ IsAnswer(i, "getBlock")
    /\ IsWithoutError(events[i].outcome)
    /\ TxCountOnWire(events[i].outcome.body.result) >= 0

BlockLineIsPrinted(i) ==
    /\ Len(events) >= i + 1
    /\ events[i + 1].ev = "println"
    /\ events[i + 1].line.fmt = "slot: {} | tx_count: {} | latency: {:?}"
    /\ events[i + 1].line.args[1] = [u64 |-> RequestedSlot(i - 1)]
    /\ events[i + 1].line.args[2] = [usize |-> TxCountOnWire(events[i].outcome.body.result)]

C4_SuccessAdvancesByOne ==
    \A i \in DOMAIN events :
        IsBlock(i) => (BlockLineIsPrinted(i) /\ GoesOnToNext(i))

\* the same for every C below u64::MAX
C4_BelowMax ==
    \A i \in DOMAIN events :
        (IsBlock(i) /\ RequestedSlot(i - 1) # U64_MAX)
        => (BlockLineIsPrinted(i) /\ GoesOnToNext(i))

(***************************************************************************)
(* C5.  When getBlock answers without error and the result is absent or    *)
(* null, or is not an object holding an array under "transactions", the    *)
(* loop prints the "no block data found" / "no transactions found" line,   *)
(* ends, and sends no further request.                                     *)
(***************************************************************************)
C5_NoDataEndsTheLoop ==
    \A i \in DOMAIN events :
        ( IsAnswer(i, "getBlock") /\ IsWithoutError(events[i].outcome) )
        => LET C == RequestedSlot(i - 1)
               result == events[i].outcome.body.result
               ended(fmt) == /\ Len(events) = i + 1
                             /\ events[i + 1] = Printed([fmt |-> fmt, args |-> << [u64 |-> C] >>])
                             /\ pc = "exited"
                             /\ exit.status # "running"
           IN  /\ result.t \in {"absent", "null"}
                 => ended("no block data found for slot: {}")
               /\ (result.t \notin {"absent", "null"} /\ TxCountOnWire(result) < 0)
                 => ended("no transactions found for slot: {}")

\* the run ended on an object whose "transactions" is no array, after a fetch
C5_Witness ==
    /\ pc = "exited"
    /\ Len(events) = 9
    /\ IsAnswer(8, "getBlock")
    /\ events[8].outcome.body.result = JObject(JString)
    /\ events[9].line.fmt = "no transactions found for slot: {}"

\* the run ended on a null result
C5_WitnessNull ==
    /\ pc = "exited"
    /\ IsAnswer(Len(events) - 1, "getBlock")
    /\ IsWithoutError(events[Len(events) - 1].outcome)
    /\ events[Len(events) - 1].outcome.body.result = JNull

(***************************************************************************)
(* C6.  Once created from the frontier, the cursor never decreases: every  *)
(* step leaves it unchanged or increases it by exactly 1, and it increases *)
(* only on the "skipped" answer or on a successfully retrieved block.      *)
(***************************************************************************)
\* this step handles an answer to getBlock that is a skip or a block
IsAdvancingStep ==
    /\ pc = "await_block"
    /\ Len(events') > Len(events)
    /\ LET o == events'[Len(events) + 1].outcome
       IN  \/ IsRemoteError(o, -32007)
           \/ IsWithoutError(o) /\ TxCountOnWire(o.body.result) >= 0

\* this step creates the cursor from the slot getSlot answered
IsCreation ==
    /\ pc = "await_slot"
    /\ Len(events') > Len(events)
    /\ events'[Len(events) + 1].outcome.body.result = JNumber(slot_to_fetch')

CursorStep ==
    IF slot_to_fetch = NoSlot
    THEN slot_to_fetch' = NoSlot \/ IsCreation
    ELSE \/ slot_to_fetch' = slot_to_fetch
         \/ IsSuccessor(slot_to_fetch, slot_to_fetch') /\ IsAdvancingStep

C6_CursorNeverDecreases == [][CursorStep]_vars

\* the same while the cursor is below u64::MAX
C6_BelowMax == [][slot_to_fetch # U64_MAX => CursorStep]_vars

(***************************************************************************)
(* C7.  Every getBlock request carries the current cursor; the requested   *)
(* slots start at the frontier and are consecutive, a slot is requested    *)
(* again only after an answer that neither retrieved nor skipped it, and a *)
(* retrieved or skipped slot is never requested again.                     *)
(***************************************************************************)
\* events[i] retrieved or skipped the slot asked for
IsSettled(i) == IsSkipped(i) \/ IsBlock(i)

\* j is the first getBlock request after the getBlock request i
IsNextBlockRequest(i, j) ==
    /\ i < j
    /\ IsRequest(i, "getBlock")
    /\ IsRequest(j, "getBlock")
    /\ \A k \in (i + 1)..(j - 1) : ~IsRequest(k, "getBlock")

RequestCarriesCursor ==
    \A i \in DOMAIN events :
        (IsRequest(i, "getBlock") /\ IsLast(i)) => RequestedSlot(i) = slot_to_fetch

ConsecutiveRequests(i, j) ==
    IF IsSettled(i + 1)
    THEN IsSuccessor(RequestedSlot(i), RequestedSlot(j))
    ELSE RequestedSlot(j) = RequestedSlot(i)

SettledNotRequestedAgain(i, j) ==
    (i < j /\ IsRequest(i, "getBlock") /\ IsRequest(j, "getBlock") /\ IsSettled(i + 1))
    => U64Lt(RequestedSlot(i), RequestedSlot(j))

C7_NoSlotTwiceNoneSkipped ==
    /\ RequestCarriesCursor
    /\ \A i, j \in DOMAIN events :
        /\ IsNextBlockRequest(i, j) => ConsecutiveRequests(i, j)
        /\ SettledNotRequestedAgain(i, j)

\* the same for the requests that follow a request below u64::MAX
C7_BelowMax ==
    /\ RequestCarriesCursor
    /\ \A i, j \in DOMAIN events :
        /\ (IsNextBlockRequest(i, j) /\ RequestedSlot(i) # U64_MAX)
             => ConsecutiveRequests(i, j)
        /\ (\A k \in i..(j - 1) : IsRequest(k, "getBlock") => RequestedSlot(k) # U64_MAX)
             => SettledNotRequestedAgain(i, j)

(***************************************************************************)
(* C8.  When getBlock for C answers a remote error whose code is neither   *)
(* -32004 nor -32007, the loop prints the error line with the code and the *)
(* message, leaves the cursor at C, does not sleep, does not end, and the  *)
(* next request, sent right away, is again getBlock for C.                 *)
(***************************************************************************)
\* events[i] answers the getBlock request with an error of another code
IsOtherError(i) ==
    /\ IsAnswer(i, "getBlock")
    /\ HasEnvelope(events[i].outcome)
    /\ events[i].outcome.body.error.t = "error_object"
    /\ events[i].outcome.body.error.code \notin {-32004, -32007}

C8_OtherErrorRetriesAtOnce ==
    \A i \in DOMAIN events :
        IsOtherError(i)
        => LET C == RequestedSlot(i - 1)
               e == events[i].outcome.body.error
           IN  /\ Len(events) >= i + 1
               /\ events[i + 1] =
                    Printed([fmt |-> "error: {}",
                             args |-> << [text |-> [fmt |-> "JSON-RPC error {}: {}",
                                                    args |-> << [i64 |-> e.code],
                                                                [str |-> e.message] >>]] >>])
               /\ Len(events) >= i + 2 => events[i + 2] = BlockRequestFor(C)
               /\ Len(events) <= i + 2 => (slot_to_fetch = C /\ exit = Running)
               /\ IsLast(i + 1) => pc = "loop"
               /\ IsLast(i + 2) => pc = "await_block"

\* another error for 1000, and the next request, for 1000 again, is out
C8_Witness ==
    /\ Len(events) = 7
    /\ events[4] = BlockRequestFor(U64(1000))
    /\ IsOtherError(5)
    /\ events[6].ev = "println"
    /\ events[7] = BlockRequestFor(U64(1000))

(***************************************************************************)
(* C9.  When getSlot answers a remote error, whatever its code, or the     *)
(* transport fails, main() ends at once with that error: getSlot is not    *)
(* sent again and no getBlock request is ever sent.                        *)
(***************************************************************************)
\* events[i] answers getSlot with a remote error (the result, if there is
\* one, being a slot)
IsSlotError(i) ==
    /\ IsAnswer(i, "getSlot")
    /\ HasEnvelope(events[i].outcome)
    /\ events[i].outcome.body.error.t = "error_object"
    /\ events[i].outcome.body.result.t \in {"absent", "null", "number"}

\* events[i] is the transport failing on getSlot
IsSlotTransportFailure(i) ==
    /\ IsAnswer(i, "getSlot")
    /\ events[i].outcome.kind = "transport_failure"

\* the run was a single getSlot request, and ended on its answer
EndedOnGetSlot ==
    /\ Len(events) = 2
    /\ IsRequest(1, "getSlot")
    /\ pc = "exited"
    /\ slot_to_fetch = NoSlot

C9_InitFailureIsFatal ==
    \A i \in DOMAIN events :
        /\ IsSlotError(i)
             => /\ EndedOnGetSlot
                /\ exit = [status |-> "err",
                           error |-> [kind |-> "rpc",
                                      code |-> events[i].outcome.body.error.code,
                                      message |-> events[i].outcome.body.error.message]]
        /\ IsSlotTransportFailure(i)
             => /\ EndedOnGetSlot
                /\ exit = [status |-> "err", error |-> [kind |-> "transport"]]

\* getSlot answered -32004 and the run ended with that error
C9_Witness ==
    /\ IsSlotError(2)
    /\ events[2].outcome.body.error.code = -32004
    /\ exit.status = "err"
    /\ pc = "exited"

\* the transport failed on getSlot and the run ended
C9_WitnessTransport == IsSlotTransportFailure(2) /\ pc = "exited"

(***************************************************************************)
(* C10.  In the loop a transport failure or a body that does not decode is *)
(* fatal: main() ends at once with that error, the slot is not retried,    *)
(* nothing more is printed and no further request is sent.                 *)
(***************************************************************************)
\* a body that is no JsonRpcResponse<serde_json::Value>
IsUndecodable(o) ==
    /\ o.kind = "body"
    /\ \/ o.body.unknown
       \/ o.body.jsonrpc.t # "string"
       \/ o.body.id.t # "number"
       \/ o.body.error.t \notin {"absent", "null", "error_object"}

C10_FetchFailureIsFatal ==
    \A i \in DOMAIN events :
        IsAnswer(i, "getBlock")
        => /\ events[i].outcome.kind = "transport_failure"
                => /\ IsLast(i)
                   /\ pc = "exited"
                   /\ exit = [status |-> "err", error |-> [kind |-> "transport"]]
           /\ IsUndecodable(events[i].outcome)
                => /\ IsLast(i)
                   /\ pc = "exited"
                   /\ exit = [status |-> "err", error |-> [kind |-> "decode"]]

\* the second getBlock got a body with an unknown key, and the run ended
C10_Witness ==
    /\ Len(events) = 8
    /\ IsAnswer(8, "getBlock")
    /\ IsUndecodable(events[8].outcome)
    /\ events[8].outcome.body.unknown
    /\ pc = "exited"

\* the transport failed on the second getBlock, and the run ended
C10_WitnessTransport ==
    /\ Len(events) = 8
    /\ IsAnswer(8, "getBlock")
    /\ events[8].outcome.kind = "transport_failure"
    /\ pc = "exited"

(***************************************************************************)
(* Why a run ended: read off the last answer in the history, as it was on  *)
(* the wire.                                                               *)
(***************************************************************************)
\* the index of the last answer received
LastAnswer ==
    CHOOSE i \in DOMAIN events :
        /\ events[i].ev = "response"
        /\ \A k \in (i + 1)..Len(events) : events[k].ev # "response"

\* a body that is no JsonRpcResponse<u64>
IsSlotUndecodable(o) ==
    \/ IsUndecodable(o)
    \/ o.kind = "body" /\ o.body.result.t \notin {"absent", "null", "number"}

\* what the last answer was
ExitCause ==
    LET i == LastAnswer
        o == events[i].outcome
    IN  IF IsAnswer(i, "getSlot")
        THEN IF o.kind = "transport_failure" THEN "init_transport"
             ELSE IF IsSlotUndecodable(o) THEN "init_decode"
             ELSE IF o.body.error.t = "error_object" THEN "init_remote_error"
             ELSE IF o.body.result.t = "number" THEN "init_slot"
             ELSE "init_no_result"
        ELSE IF o.kind = "transport_failure" THEN "fetch_transport"
             ELSE IF IsUndecodable(o) THEN "fetch_decode"
             ELSE IF o.body.error.t = "error_object" THEN "fetch_remote_error"
             ELSE IF o.body.result.t \in {"absent", "null"} THEN "no_block"
             ELSE IF TxCountOnWire(o.body.result) < 0 THEN "no_transactions"
             ELSE "fetch_block"

\* the exits the design names
ErrorExits == {"init_remote_error", "init_transport", "init_decode",
               "fetch_transport", "fetch_decode"}
NoDataExits == {"no_block", "no_transactions"}

(***************************************************************************)
(* C11.  A run ends only on a remote error or a transport/decode failure   *)
(* of getSlot, on a transport/decode failure of getBlock, or on one of the *)
(* two "no data" answers of getBlock; no remote error of getBlock and no   *)
(* other answer ends it.                                                   *)
(***************************************************************************)
C11_OnlyNamedExits ==
    pc = "exited" => ExitCause \in ErrorExits \cup NoDataExits

\* the exits the code has besides: the two panics
IsPanicExit ==
    /\ exit.status = "panic"
    /\ \/ ExitCause = "init_no_result" /\ exit.msg = "expected slot result"
       \/ /\ ExitCause \in {"fetch_remote_error", "fetch_block"}
          /\ exit.msg = "attempt to add with overflow"
          /\ overflow_checks
          /\ slot_to_fetch = U64_MAX
          /\ ExitCause = "fetch_remote_error"
               => events[LastAnswer].outcome.body.error.code = -32007

\* every run that ends, ends on a named exit or on one of the two panics
C11_ExitsWithPanics ==
    pc = "exited" =>
        \/ exit.status # "panic" /\ ExitCause \in ErrorExits \cup NoDataExits
        \/ IsPanicExit

(***************************************************************************)
(* C12.  A run ends with a failure exactly when it ends on a propagated    *)
(* error (a remote error of getSlot, a transport failure, a decode         *)
(* failure), and ends cleanly when it ends on one of the two "no data"     *)
(* answers.                                                                *)
(***************************************************************************)
\* the process exits with a failure: main() returned Err, or panicked
IsFailure == exit.status \in {"err", "panic"}

C12_ExitOutcome ==
    pc = "exited" =>
        /\ IsFailure <=> ExitCause \in ErrorExits
        /\ ExitCause \in NoDataExits => exit = [status |-> "ok"]

\* the same for the runs that do not panic
C12_WithoutPanics ==
    (pc = "exited" /\ exit.status # "panic") =>
        /\ IsFailure <=> ExitCause \in ErrorExits
        /\ ExitCause \in NoDataExits => exit = [status |-> "ok"]
        /\ exit.status = "ok" => ExitCause \in NoDataExits

(***************************************************************************)
(* C13.  The scripted scenario.  The endpoint reports slot 1000 and        *)
(* answers getBlock by slot: 1000 a block of 3 transactions, 1001 the      *)
(* error -32007, 1002 the error -32004 the first time and a block of 0     *)
(* transactions after that, 1003 a null result.  What the script leaves    *)
(* open (a null or missing "error", a result beside an error, the          *)
(* latency, the build) is left open here.                                  *)
(***************************************************************************)
\* how many getBlock requests for `slot` have been sent
TimesRequested(slot) ==
    Cardinality({i \in DOMAIN events : IsRequest(i, "getBlock") /\ RequestedSlot(i) = slot})

\* the bodies the scripted endpoint may answer the last request with
ScenarioAnswers ==
    LET C == RequestedSlot(Len(events))
        ok(result) == {WellFormed(GET_BLOCK_ID, result, e) : e \in {Absent, JNull}}
        err(code) == {WellFormed(GET_BLOCK_ID, r, JErrorObject(code, "message")) :
                        r \in {Absent, JNull, JObject(JArray(1))}}
    IN  IF C = U64(1000) THEN ok(JObject(JArray(3)))
        ELSE IF C = U64(1001) THEN err(-32007)
        ELSE IF C = U64(1002)
             THEN IF TimesRequested(C) = 1 THEN err(-32004) ELSE ok(JObject(JArray(0)))
        ELSE IF C = U64(1003) THEN ok(JNull) \cup ok(Absent)
        ELSE {}

ScenarioGetSlot ==
    \E e \in {Absent, JNull} :
        GetSlot(Arrived(WellFormed(GET_SLOT_ID, JNumber(U64(1000)), e)))

ScenarioGetBlock ==
    /\ pc = "await_block"
    /\ \E body \in ScenarioAnswers, latency \in Latencies : GetBlock(Arrived(body), latency)

\* the loop is left to run twice as long as the runs of Spec, which is longer
\* than the script
ScenarioSendGetBlock ==
    /\ Len(BlockRequests) < 2 * MaxFetches
    /\ IssueGetBlock

NextScenario ==
    \/ SendGetSlot
    \/ ScenarioGetSlot
    \/ ScenarioSendGetBlock
    \/ ScenarioGetBlock
    \/ SleepDone

SpecScenario == Init /\ [][NextScenario]_vars

\* the slots requested so far, in order
RequestedSlots == [k \in DOMAIN BlockRequests |-> BlockRequests[k].request.params[1].slot]

\* the lines printed so far after the first one ("fetching blocks starting ..")
StatusLines ==
    LET printed == SelectSeq(events, LAMBDA e : e.ev = "println")
    IN  [k \in 1..(Len(printed) - 1) |-> printed[k + 1].line]

\* the positions of the sleeps in the history
SleepPositions == {i \in DOMAIN events : events[i].ev = "sleep"}

ScenarioSlots == << U64(1000), U64(1001), U64(1002), U64(1002), U64(1003) >>

IsBlockLine(line, slot, tx_count) ==
    /\ line.fmt = "slot: {} | tx_count: {} | latency: {:?}"
    /\ Len(line.args) = 3
    /\ line.args[1] = [u64 |-> slot]
    /\ line.args[2] = [usize |-> tx_count]
    /\ line.args[3] \in {[millis |-> l] : l \in Latencies}

IsPrefix(s, t) == Len(s) <= Len(t) /\ \A k \in DOMAIN s : s[k] = t[k]

C13_Scenario ==
    /\ IsPrefix(RequestedSlots, ScenarioSlots)
    /\ pc # "exited" => ENABLED NextScenario
    /\ pc = "exited"
         => /\ RequestedSlots = ScenarioSlots
            /\ Len(StatusLines) = 4
            /\ IsBlockLine(StatusLines[1], U64(1000), 3)
            /\ StatusLines[2] = [fmt |-> "slot: {} | skipped", args |-> << [u64 |-> U64(1001)] >>]
            /\ IsBlockLine(StatusLines[3], U64(1002), 0)
            /\ StatusLines[4] = [fmt |-> "no block data found for slot: {}",
                                 args |-> << [u64 |-> U64(1003)] >>]
            /\ \E i \in DOMAIN events :
                  /\ SleepPositions = {i}
                  /\ events[i] = Slept(500)
                  /\ events[i - 2] = BlockRequestFor(U64(1002))
                  /\ events[i + 1] = BlockRequestFor(U64(1002))
            /\ exit = [status |-> "ok"]

\* the scripted run has ended
C13_Witness ==
    /\ pc = "exited"
    /\ Len(BlockRequests) = 5
    /\ exit.status = "ok"

(***************************************************************************)
(* C14.  The decision the loop takes on an answer to getBlock (retry with  *)
(* delay, skip and advance, log and retry, success and advance, terminate) *)
(* is a function of the answer's error code and payload shape only: it is  *)
(* the same whatever the cursor and whatever happened before.              *)
(***************************************************************************)
\* what of an answer may decide: the error code, or the shape of the payload
ResponseKey(o) ==
    IF o.kind = "transport_failure" THEN [shape |-> "transport_failure"]
    ELSE IF IsUndecodable(o) THEN [shape |-> "undecodable"]
    ELSE IF o.body.error.t = "error_object" THEN [shape |-> "error", code |-> o.body.error.code]
    ELSE IF o.body.result.t \in {"absent", "null"} THEN [shape |-> "no_result"]
    ELSE IF TxCountOnWire(o.body.result) < 0 THEN [shape |-> "no_transactions"]
    ELSE [shape |-> "block"]

\* the decision each key stands for
DecisionFor(key) ==
    IF key.shape = "error"
    THEN IF key.code = -32004 THEN "retry_with_delay"
         ELSE IF key.code = -32007 THEN "skip_and_advance"
         ELSE "log_and_retry"
    ELSE IF key.shape = "block" THEN "success_and_advance"
    ELSE "terminate"

\* the branch the loop took on the answer events[i], read off what it did next
Branch(i) ==
    IF IsLast(i) THEN "terminate"
    ELSE LET e == events[i + 1]
         IN  IF e.ev = "sleep" THEN "retry_with_delay"
             ELSE IF e.ev # "println" THEN "none"
             ELSE IF e.line.fmt = "slot: {} | skipped" THEN "skip_and_advance"
             ELSE IF e.line.fmt = "error: {}" THEN "log_and_retry"
             ELSE IF e.line.fmt = "slot: {} | tx_count: {} | latency: {:?}"
                  THEN "success_and_advance"
             ELSE IF e.line.fmt \in {"no block data found for slot: {}",
                                     "no transactions found for slot: {}"}
                  THEN "terminate"
             ELSE "none"

\* on every answer the loop takes the branch the answer's key stands for, so
\* two answers with the same key get the same branch, wherever they arrive
C14_DecisionByContentOnly ==
    /\ \A i \in DOMAIN events :
          IsAnswer(i, "getBlock")
          => Branch(i) = DecisionFor(ResponseKey(events[i].outcome))
    /\ \A i, j \in DOMAIN events :
          ( /\ IsAnswer(i, "getBlock")
            /\ IsAnswer(j, "getBlock")
            /\ ResponseKey(events[i].outcome) = ResponseKey(events[j].outcome) )
          => Branch(i) = Branch(j)

\* the same answer, -32007, at two cursors, the second time after a retry
C14_Witness ==
    /\ Len(events) = 12
    /\ IsSkipped(5)
    /\ IsAnswer(8, "getBlock")
    /\ IsRemoteError(events[8].outcome, -32004)
    /\ IsSkipped(11)
    /\ events[5].outcome = events[11].outcome
    /\ RequestedSlot(4) # RequestedSlot(10)
    /\ Branch(5) = "skip_and_advance"
    /\ Branch(11) = "skip_and_advance"

\* the run ended on the answer events[i]
EndedOn(i) == pc = "exited" /\ i = LastAnswer

\* below u64::MAX the run also ends on an answer if and only if the answer's
\* key stands for "terminate" (at u64::MAX the increment of the branches that
\* advance overflows)
C14_EndsByContentOnly ==
    \A i \in DOMAIN events :
        (IsAnswer(i, "getBlock") /\ RequestedSlot(i - 1) # U64_MAX)
        => (EndedOn(i) <=> DecisionFor(ResponseKey(events[i].outcome)) = "terminate")

(***************************************************************************)
(* C15.  A decoded answer with neither result nor error is taken as "no    *)
(* data" by the call that receives it, getSlot as well as getBlock: the    *)
(* run ends there cleanly, not with an error and not with an abort.        *)
(***************************************************************************)
\* events[i] is a response with neither result nor error
IsEmptyAnswer(i) ==
    /\ i \in DOMAIN events
    /\ events[i].ev = "response"
    /\ IsWithoutError(events[i].outcome)
    /\ events[i].outcome.body.result.t \in {"absent", "null"}

EndsCleanlyOn(i) ==
    /\ pc = "exited"
    /\ exit = [status |-> "ok"]
    /\ i = LastAnswer
    /\ \A k \in (i + 1)..Len(events) : events[k].ev = "println"

C15_EmptyAnswerIsNoData ==
    \A i \in DOMAIN events : IsEmptyAnswer(i) => EndsCleanlyOn(i)

\* for getBlock it is
C15_GetBlock ==
    \A i \in DOMAIN events :
        (IsEmptyAnswer(i) /\ IsAnswer(i, "getBlock")) => EndsCleanlyOn(i)

\* for getSlot the run aborts
C15_GetSlotPanics ==
    \A i \in DOMAIN events :
        (IsEmptyAnswer(i) /\ IsAnswer(i, "getSlot"))
        => /\ EndedOnGetSlot
           /\ exit = [status |-> "panic", msg |-> "expected slot result"]

(***************************************************************************)
(* C16.  A decoded answer with both a result and an error is an error: the *)
(* result is never used (no block line, no advance as for a block, no "no  *)
(* transactions" ending), and the answer is handled exactly as the same    *)
(* answer without the result: getSlot ends the run with the error,         *)
(* getBlock is classified by the error code.                               *)
(***************************************************************************)
\* events[i] answers a request of `method` with a remote error
IsErrorAnswer(i, method) ==
    /\ IsAnswer(i, method)
    /\ HasEnvelope(events[i].outcome)
    /\ events[i].outcome.body.error.t = "error_object"
    /\ method = "getSlot" => events[i].outcome.body.result.t \in {"absent", "null", "number"}

\* ... and with a result beside it
HasResultToo(i) == events[i].outcome.body.result.t \notin {"absent", "null"}

\* what the loop does next on a remote error for slot C, by the error alone
ExpectedAfterError(error, C) ==
    IF error.code = -32004 THEN [ev |-> "sleep", millis |-> 500]
    ELSE IF error.code = -32007
    THEN Printed([fmt |-> "slot: {} | skipped", args |-> << [u64 |-> C] >>])
    ELSE Printed([fmt |-> "error: {}",
                  args |-> << [text |-> [fmt |-> "JSON-RPC error {}: {}",
                                         args |-> << [i64 |-> error.code],
                                                     [str |-> error.message] >>]] >>])

\* events[i], an error answer, was handled by its error alone
HandledAsError(i) ==
    LET error == events[i].outcome.body.error
    IN  IF IsAnswer(i, "getSlot")
        THEN /\ EndedOnGetSlot
             /\ exit = [status |-> "err",
                        error |-> [kind |-> "rpc", code |-> error.code,
                                   message |-> error.message]]
        ELSE LET C == RequestedSlot(i - 1)
             IN  /\ Len(events) >= i + 1
                 /\ events[i + 1] = ExpectedAfterError(error, C)
                 /\ Len(events) >= i + 2 => IsRequest(i + 2, "getBlock")
                 /\ (Len(events) >= i + 2 /\ error.code # -32007)
                      => events[i + 2] = BlockRequestFor(C)
                 /\ i = LastAnswer => exit.status \notin {"ok", "err"}
                 /\ (IsLast(i + 1) /\ error.code # -32007)
                      => (slot_to_fetch = C /\ exit = Running)

\* with the result and without it
C16_ResultBesideErrorIsIgnored ==
    \A i \in DOMAIN events, method \in {"getSlot", "getBlock"} :
        IsErrorAnswer(i, method) => HandledAsError(i)

\* getBlock answered -32007 with a block beside it, and the slot was skipped
C16_Witness ==
    /\ Len(events) >= 7
    /\ IsErrorAnswer(5, "getBlock")
    /\ HasResultToo(5)
    /\ events[5].outcome.body.error.code = -32007
    /\ events[5].outcome.body.result = JObject(JArray(1))
    /\ events[6].line.fmt = "slot: {} | skipped"

\* getSlot answered an error with a slot beside it, and the run ended
C16_WitnessGetSlot ==
    /\ IsErrorAnswer(2, "getSlot")
    /\ HasResultToo(2)
    /\ pc = "exited"

(***************************************************************************)
(* C17.  Every status line printed for a fetched, skipped or errored slot  *)
(* contains that slot (for a fetched one also the transaction count and    *)
(* the latency), and exactly one such line is printed per answer that is a *)
(* block, a skip or an unclassified error.                                 *)
(***************************************************************************)
\* the values put into the holes of a line, those of a line put into a hole
\* included
Holes(line) ==
    {line.args[k] : k \in DOMAIN line.args}
    \cup UNION { {line.args[k].text.args[n] : n \in DOMAIN line.args[k].text.args} :
                   k \in {k \in DOMAIN line.args : DOMAIN line.args[k] = {"text"}} }

\* events[i] is an answer to getBlock a status line is due for
IsReported(i) == IsBlock(i) \/ IsSkipped(i) \/ IsOtherError(i)

\* exactly one line follows events[i] before the next request or the end
OneLineFollows(i) ==
    /\ Len(events) >= i + 1
    /\ events[i + 1].ev = "println"
    /\ Len(events) >= i + 2 => events[i + 2].ev = "request"

SaysSlot(i) == [u64 |-> RequestedSlot(i - 1)] \in Holes(events[i + 1].line)

SaysCountAndLatency(i) ==
    /\ [usize |-> TxCountOnWire(events[i].outcome.body.result)] \in Holes(events[i + 1].line)
    /\ \E l \in Latencies : [millis |-> l] \in Holes(events[i + 1].line)

SaysCodeAndMessage(i) ==
    /\ [i64 |-> events[i].outcome.body.error.code] \in Holes(events[i + 1].line)
    /\ [str |-> events[i].outcome.body.error.message] \in Holes(events[i + 1].line)

\* the claim as it stands
C17_EveryLineSaysTheSlot ==
    \A i \in DOMAIN events :
        IsReported(i)
        => /\ OneLineFollows(i)
           /\ SaysSlot(i)
           /\ IsBlock(i) => SaysCountAndLatency(i)

\* the claim as amended: the line for an unclassified error says the code and
\* the message, and not the slot
C17_LinesAsPrinted ==
    \A i \in DOMAIN events :
        IsReported(i)
        => /\ OneLineFollows(i)
           /\ (IsBlock(i) \/ IsSkipped(i)) => SaysSlot(i)
           /\ IsBlock(i) => SaysCountAndLatency(i)
           /\ IsOtherError(i) => (SaysCodeAndMessage(i) /\ ~SaysSlot(i))

\* an error line, a skipped line and a block line have been printed
C17_Witness ==
    /\ Len(events) = 12
    /\ IsOtherError(5)
    /\ events[6].line.fmt = "error: {}"
    /\ IsSkipped(8)
    /\ events[9].line.fmt = "slot: {} | skipped"
    /\ IsBlock(11)
    /\ events[12].line.fmt = "slot: {} | tx_count: {} | latency: {:?}"

(***************************************************************************)
(* Runs for progress: every call is answered, and for each slot the        *)
(* endpoint answers -32004 or an unclassified error at most MaxRetries     *)
(* times in a row.                                                         *)
(***************************************************************************)
\* an answer that makes the loop ask for the same slot again
IsRetryAnswer(o) ==
    /\ HasEnvelope(o)
    /\ o.body.error.t = "error_object"
    /\ o.body.error.code # -32007

\* how many such answers the history ends with
RetriesInARow ==
    LET answers == SelectSeq(events, LAMBDA e : e.ev = "response")
    IN  Cardinality({k \in DOMAIN answers :
                        \A m \in k..Len(answers) : IsRetryAnswer(answers[m].outcome)})

LiveGetBlock ==
    /\ pc = "await_block"
    /\ \E outcome \in GetBlockOutcomes, latency \in Latencies :
          /\ IsRetryAnswer(outcome) => RetriesInARow < MaxRetries
          /\ GetBlock(outcome, latency)

LiveGetSlot == \E outcome \in GetSlotOutcomes : GetSlot(outcome)

LiveNext ==
    \/ SendGetSlot
    \/ LiveGetSlot
    \/ SendGetBlock
    \/ LiveGetBlock
    \/ SleepDone

\* the program runs on and the endpoint answers: no step that can be taken is
\* put off forever
LiveSpec == Init /\ [][LiveNext]_vars /\ WF_vars(LiveNext)

(***************************************************************************)
(* C18.  Progress.  If every call is answered and the endpoint answers     *)
(* -32004 or an unclassified error for a slot only finitely often in a     *)
(* row, then from every state of the loop with cursor C the run eventually *)
(* ends or the cursor advances, and the value it advances to is C + 1.  As *)
(* long as the endpoint answers C with -32004 or an unclassified error,    *)
(* the run does not end and no slot but C is requested.                    *)
(***************************************************************************)
\* the cursors a run of MaxFetches requests can hold
RECURSIVE Upto(_, _)
Upto(c, n) == IF n = 0 THEN {c} ELSE {c} \cup Upto(WrappingAddOne(c), n - 1)
Cursors == UNION {Upto(f, MaxFetches) : f \in Frontiers}

\* the loop is running, and the bound of the model leaves room for the
\* retries and the answer that settles the slot
InLoopWithRoom ==
    /\ pc \in {"loop", "await_block", "sleeping"}
    /\ Len(BlockRequests) + MaxRetries + 1 <= MaxFetches

\* the run ends or the cursor leaves C
C18_Leaves ==
    \A C \in Cursors :
        (InLoopWithRoom /\ slot_to_fetch = C) ~> (pc = "exited" \/ slot_to_fetch # C)

\* the value the cursor leaves C for is C + 1
AdvancesToNext ==
    (slot_to_fetch # NoSlot /\ slot_to_fetch' # slot_to_fetch)
    => IsSuccessor(slot_to_fetch, slot_to_fetch')

\* after the request events[i], only retry answers have come: the run has not
\* ended and every later request is for the same slot
RetriesStay ==
    \A i \in DOMAIN events :
        ( /\ IsRequest(i, "getBlock")
          /\ \A k \in (i + 1)..Len(events) :
                events[k].ev = "response" => IsRetryAnswer(events[k].outcome) )
        => /\ pc # "exited"
           /\ exit = Running
           /\ slot_to_fetch = RequestedSlot(i)
           /\ \A k \in (i + 1)..Len(events) :
                 IsRequest(k, "getBlock") => RequestedSlot(k) = RequestedSlot(i)

C18_Progress == C18_Leaves /\ [][AdvancesToNext]_vars /\ []RetriesStay

\* the same, the step from u64::MAX set aside
C18_BelowMax ==
    /\ C18_Leaves
    /\ [][slot_to_fetch # U64_MAX => AdvancesToNext]_vars
    /\ []RetriesStay

\* the retries alone, in the runs of Spec
C18_RetriesStay == RetriesStay

(***************************************************************************)
(* C19.  Delay placement.  The program sleeps, for 500 ms, exactly after   *)
(* a getBlock answer that carries the remote error -32004: once, before    *)
(* the next request.  After a skip (-32007), another error code or a       *)
(* retrieved block the next request follows with no sleep, and there is no *)
(* sleep before the first getBlock request or before the program ends.     *)
(***************************************************************************)
IsSleep(i) == i \in DOMAIN events /\ events[i].ev = "sleep"

IsNotAvailable(i) ==
    IsAnswer(i, "getBlock") /\ IsRemoteError(events[i].outcome, -32004)

\* the sleeps between the events i and j
SleepsBetween(i, j) == {k \in (i + 1)..(j - 1) : IsSleep(k)}

\* events[j] is the first getBlock request after events[i]
IsNextRequestAfter(i, j) ==
    /\ i < j
    /\ IsRequest(j, "getBlock")
    /\ \A k \in (i + 1)..(j - 1) : ~IsRequest(k, "getBlock")

C19_DelayOnlyAfterNotAvailable ==
    /\ \A i \in DOMAIN events :
          IsSleep(i) => /\ events[i] = Slept(500)
                        /\ IsNotAvailable(i - 1)
    /\ \A i \in DOMAIN events :
          IsNotAvailable(i) => IsSleep(i + 1)
    /\ \A i, j \in DOMAIN events :
          (IsAnswer(i, "getBlock") /\ IsNextRequestAfter(i, j))
          => Cardinality(SleepsBetween(i, j)) = IF IsNotAvailable(i) THEN 1 ELSE 0
    /\ \A j \in DOMAIN events :
          (IsRequest(j, "getBlock") /\ \A k \in 1..(j - 1) : ~IsRequest(k, "getBlock"))
          => SleepsBetween(0, j) = {}
    /\ pc \in {"start", "await_slot"} => \A i \in DOMAIN events : ~IsSleep(i)
    /\ pc = "exited" => ~IsSleep(Len(events))
    /\ pc = "sleeping" => IsSleep(Len(events))

\* a run that has slept after -32004 and has gone on at once after a skip,
\* another error and a block
C19_Witness ==
    /\ \E i, j \in DOMAIN events :
          IsNotAvailable(i) /\ IsNextRequestAfter(i, j) /\ SleepsBetween(i, j) # {}
    /\ \E i, j \in DOMAIN events :
          /\ IsSkipped(i) \/ IsOtherError(i) \/ IsBlock(i)
          /\ IsNextRequestAfter(i, j)
          /\ SleepsBetween(i, j) = {}

\* each of the three answers that go on at once is followed by a request
C19_WitnessEach ==
    /\ Len(BlockRequests) = MaxFetches
    /\ \E i, j \in DOMAIN events : IsOtherError(i) /\ IsNextRequestAfter(i, j)
    /\ \E i, j \in DOMAIN events : IsBlock(i) /\ IsNextRequestAfter(i, j)

(***************************************************************************)
(* C20.  No wrap-around.  The cursor is an unsigned 64-bit integer.  When  *)
(* it holds 2^64 - 1, a skip or a retrieved block never makes the next     *)
(* requested slot smaller than the current one: the cursor does not wrap   *)
(* to 0.                                                                   *)
(***************************************************************************)
\* the cursor is a u64
IsU64(x) == x \in [Limbs -> 0..LimbMax]

\* events[i] is a skip or a retrieved block, answered for slot 2^64 - 1
IsSettledAtMax(i) ==
    /\ IsSkipped(i) \/ IsBlock(i)
    /\ RequestedSlot(i - 1) = U64_MAX

C20_NoWrapAround ==
    /\ slot_to_fetch # NoSlot => IsU64(slot_to_fetch)
    /\ \A i, j \in DOMAIN events :
          (IsSettledAtMax(i) /\ IsNextRequestAfter(i, j))
          => ~U64Lt(RequestedSlot(j), RequestedSlot(i - 1))
    /\ \A i \in DOMAIN events :
          (IsSettledAtMax(i) /\ pc = "loop" /\ \A k \in (i + 1)..Len(events) : ~IsAnswer(k, "getBlock"))
          => slot_to_fetch # U64_ZERO

\* what the code does at 2^64 - 1: with overflow checks the addition panics
\* and nothing more is requested; without them the cursor becomes 0
C20_AtMax ==
    \A i \in DOMAIN events :
        (IsSettledAtMax(i) /\ i = LastAnswer)
        => IF overflow_checks
           THEN /\ pc = "exited"
                /\ exit.status = "panic"
                /\ \A k \in (i + 1)..Len(events) : ~IsRequest(k, "getBlock")
           ELSE /\ exit = Running
                /\ slot_to_fetch = U64_ZERO
                /\ \A k \in (i + 1)..Len(events) :
                      IsRequest(k, "getBlock") => RequestedSlot(k) = U64_ZERO

\* slot 0 is requested after slot 2^64 - 1
C20_Wrapped ==
    \E i, j \in DOMAIN events :
        IsSettledAtMax(i) /\ IsNextRequestAfter(i, j) /\ RequestedSlot(j) = U64_ZERO

====
